---- MODULE Spec2Model ----
(***************************************************************************)
(* Model of the transaction service's ledger queries (package dbutils) and *)
(* of its audit logger (package logger).                                   *)
(*                                                                         *)
(* The relational store is modelled by its tables (users, stocks,          *)
(* reservations) and every query of dbutils by the SQL it sends, NULL and  *)
(* COALESCE included.  An SQL value is a set: {} is NULL, {n} is n.        *)
(* The statements that insert, cancel and commit reservations are not part *)
(* of dbutils; they are modelled from the specification, one store         *)
(* statement per step.                                                     *)
(*                                                                         *)
(* File-system calls succeed or fail as the modelled state decides (a file *)
(* opened without O_CREATE must exist); failures of the medium itself are  *)
(* outside the model.                                                      *)
(***************************************************************************)
EXTENDS Integers, Sequences, FiniteSets, TLC

(***************************************************************************)
(* Bounds                                                                  *)
(***************************************************************************)
MaxRid == 3           \* reservations ever inserted
MaxTime == 1          \* clock readings 0..MaxTime
MaxRecords == 2       \* appends to the audit log
MaxAmount == 250      \* formatBalance is applied to 0..MaxAmount (and a few more)

BUY == "buy"
SELL == "sell"
OrderTypes == {BUY, SELL}

UsersTable == {"alice", "bob"}
Usernames == UsersTable \cup {"ghost"}     \* "ghost" has no row in users
Symbols == {"S", "T"}
Callers == {"c1", "c2"}

InitMoney == [u \in UsersTable |-> 10000]
InitStocks == {[username |-> "alice", symbol |-> "S", shares |-> 5],
               [username |-> "alice", symbol |-> "T", shares |-> 5]}

\* The reservation requests callers issue.
BuyRequests ==
    {[username |-> "alice", symbol |-> "S", shares |-> 1, amount |-> a, type |-> BUY] :
        a \in {4000, 7000}}
    \cup {[username |-> u, symbol |-> "S", shares |-> 1, amount |-> 4000, type |-> BUY] :
        u \in {"bob", "ghost"}}
SellRequests ==
    {[username |-> "alice", symbol |-> s, shares |-> 3, amount |-> 500, type |-> SELL] :
        s \in Symbols}
    \cup {[username |-> "ghost", symbol |-> "S", shares |-> 3, amount |-> 500, type |-> SELL]}
Requests == BuyRequests \cup SellRequests
NoRequest == [username |-> "", symbol |-> "", shares |-> 0, amount |-> 0, type |-> ""]

VARIABLES
    money,          \* users: username -> money
    stocks,         \* stocks: rows (username, symbol, shares)
    reservations,   \* reservations: rows (rid, username, symbol, shares, amount, type, time)
    nextRid,        \* the rid sequence
    now,            \* the clock
    cpc,            \* caller -> "idle" | "checked": position in a reservation creation
    creq,           \* caller -> the request it checked availability for
    logExists,      \* log.xsd exists
    logFile,        \* the content of log.xsd
    gpc,            \* goroutine -> "idle" | "opened" | "written": position in a log call
    goutput,        \* goroutine -> the XML it marshalled
    gres,           \* goroutine -> how its last log call ended
    fbBalance,      \* the argument of a formatBalance call
    fbResult        \* what the call returned

ledgerVars == <<money, stocks, reservations, nextRid, cpc, creq>>
logVars == <<logExists, logFile, gpc, goutput, gres>>
formatVars == <<fbBalance, fbResult>>

(***************************************************************************)
(* SQL values and aggregates                                               *)
(***************************************************************************)
SqlNull == {}

RECURSIVE SumField(_, _)
SumField(rows, f) ==
    IF rows = {} THEN 0
    ELSE LET r == CHOOSE x \in rows : TRUE
         IN  r[f] + SumField(rows \ {r}, f)

\* SUM(f) over rows: NULL over no rows.
SqlSum(rows, f) == IF rows = {} THEN SqlNull ELSE {SumField(rows, f)}

Coalesce(x, d) == IF x = SqlNull THEN {d} ELSE x

\* a - b: NULL when either operand is NULL.
SqlMinus(a, b) ==
    IF a = SqlNull \/ b = SqlNull THEN SqlNull
    ELSE {(CHOOSE x \in a : TRUE) - (CHOOSE y \in b : TRUE)}

\* Row.Scan of a one-column row into an int: NULL cannot be converted.
ScanInt(x) ==
    IF x = SqlNull THEN [val |-> 0, err |-> "ScanNull"]
    ELSE [val |-> CHOOSE v \in x : TRUE, err |-> "nil"]

\* (SELECT money FROM USERS WHERE username = $1): NULL when no row matches.
SelectMoney(username) ==
    IF username \in DOMAIN money THEN {money[username]} ELSE SqlNull

(***************************************************************************)
(* dbutils queries                                                         *)
(***************************************************************************)
QueryUserAvailableBalanceAnyType(username) ==
    ScanInt(SqlMinus(
        SelectMoney(username),
        Coalesce(SqlSum({r \in reservations : r.username = username}, "amount"), 0)))

QueryUserAvailableBalance(username) ==
    ScanInt(SqlMinus(
        SelectMoney(username),
        Coalesce(SqlSum({r \in reservations :
                            r.username = username /\ r.type = BUY}, "amount"), 0)))

QueryUserAvailableShares(username, symbol) ==
    ScanInt(SqlMinus(
        Coalesce(SqlSum({s \in stocks :
                            s.username = username /\ s.symbol = symbol}, "shares"), 0),
        Coalesce(SqlSum({r \in reservations :
                            r.username = username /\ r.type = SELL}, "shares"), 0)))

\* ORDER BY (time) DESC, rid DESC
OrderedBeforeRidAsc(a, b) ==
    a.time > b.time \/ (a.time = b.time /\ a.rid <= b.rid)

OrderedBefore(a, b) ==
    a.time > b.time \/ (a.time = b.time /\ a.rid >= b.rid)

\* LIMIT 1 of the ordered rows: the row no other row is ordered before.
RECURSIVE FirstRow(_, _)
FirstRow(best, rest) ==
    IF rest = {} THEN best
    ELSE LET r == CHOOSE x \in rest : TRUE
         IN  FirstRow(IF OrderedBefore(best, r) THEN best ELSE r, rest \ {r})

NoRow == [rid |-> 0, username |-> "", symbol |-> "", shares |-> 0, amount |-> 0,
          type |-> "", time |-> 0]

QueryLastReservation(username, resType) ==
    LET rows == {r \in reservations : r.username = username /\ r.type = resType}
    IN  IF rows = {} THEN [res |-> NoRow, err |-> "ErrNoRows"]
        ELSE LET r0 == CHOOSE x \in rows : TRUE
             IN  [res |-> FirstRow(r0, rows \ {r0}), err |-> "nil"]

QueryReservation(rid) ==
    LET rows == {r \in reservations : r.rid = rid}
    IN  IF rows = {} THEN [res |-> NoRow, err |-> "ErrNoRows"]
        ELSE [res |-> CHOOSE x \in rows : TRUE, err |-> "nil"]

(***************************************************************************)
(* Reservation store (modelled from the specification)                     *)
(***************************************************************************)
\* The availability a creation request is checked against.
Availability(r) ==
    IF r.type = BUY THEN QueryUserAvailableBalance(r.username)
    ELSE QueryUserAvailableShares(r.username, r.symbol)

Wanted(r) == IF r.type = BUY THEN r.amount ELSE r.shares

\* Create, first statement: the caller reads the availability.
CreateCheck(p, r) ==
    /\ cpc[p] = "idle"
    /\ nextRid <= MaxRid
    /\ LET a == Availability(r)
       IN  IF a.err # "nil" \/ a.val < Wanted(r)
           THEN UNCHANGED <<cpc, creq>>      \* NotFound, InsufficientFunds/Shares
           ELSE /\ cpc' = [cpc EXCEPT ![p] = "checked"]
                /\ creq' = [creq EXCEPT ![p] = r]
    /\ UNCHANGED <<money, stocks, reservations, nextRid, now>>
    /\ UNCHANGED <<logVars, formatVars>>

\* Create, second statement: the caller inserts the reservation.
CreateInsert(p) ==
    /\ cpc[p] = "checked"
    /\ nextRid <= MaxRid
    /\ reservations' = reservations \cup
           {[rid |-> nextRid, username |-> creq[p].username, symbol |-> creq[p].symbol,
             shares |-> creq[p].shares, amount |-> creq[p].amount,
             type |-> creq[p].type, time |-> now]}
    /\ nextRid' = nextRid + 1
    /\ cpc' = [cpc EXCEPT ![p] = "idle"]
    /\ creq' = [creq EXCEPT ![p] = NoRequest]
    /\ UNCHANGED <<money, stocks, now>>
    /\ UNCHANGED <<logVars, formatVars>>

\* Cancel deletes the reservation with no other effect.
Cancel(rid) ==
    /\ QueryReservation(rid).err = "nil"
    /\ reservations' = reservations \ {QueryReservation(rid).res}
    /\ UNCHANGED <<money, stocks, nextRid, now, cpc, creq>>
    /\ UNCHANGED <<logVars, formatVars>>

SharesHeld(u, s) == SumField({h \in stocks : h.username = u /\ h.symbol = s}, "shares")

SetShares(u, s, n) ==
    {h \in stocks : ~(h.username = u /\ h.symbol = s)}
        \cup {[username |-> u, symbol |-> s, shares |-> n]}

\* Commit turns the reservation into the balance and holding change and deletes it.
Commit(rid) ==
    /\ QueryReservation(rid).err = "nil"
    /\ LET r == QueryReservation(rid).res
       IN  /\ reservations' = reservations \ {r}
           /\ IF r.type = BUY
              THEN /\ money' = [money EXCEPT ![r.username] = @ - r.amount]
                   /\ stocks' = SetShares(r.username, r.symbol,
                                          SharesHeld(r.username, r.symbol) + r.shares)
              ELSE /\ money' = [money EXCEPT ![r.username] = @ + r.amount]
                   /\ stocks' = SetShares(r.username, r.symbol,
                                          SharesHeld(r.username, r.symbol) - r.shares)
    /\ UNCHANGED <<nextRid, now, cpc, creq>>
    /\ UNCHANGED <<logVars, formatVars>>

\* The clock advances.
Tick ==
    /\ now < MaxTime
    /\ now' = now + 1
    /\ UNCHANGED <<ledgerVars, logVars, formatVars>>

(***************************************************************************)
(* Text.  A Go string is a sequence of pieces of text; formatted numbers   *)
(* are sequences of their characters.                                      *)
(***************************************************************************)
Digits == <<"0", "1", "2", "3", "4", "5", "6", "7", "8", "9">>

IsDigit(c) == \E i \in 1..10 : Digits[i] = c

DigitValue(c) == (CHOOSE i \in 1..10 : Digits[i] = c) - 1

\* The decimal digits of n >= 0.
RECURSIVE UDigits(_)
UDigits(n) ==
    IF n < 10 THEN <<Digits[n + 1]>>
    ELSE Append(UDigits(n \div 10), Digits[(n % 10) + 1])

\* fmt's %d verb.
FormatInt(n) == IF n < 0 THEN <<"-">> \o UDigits(-n) ELSE UDigits(n)

\* The value of a sequence of digits.
RECURSIVE DigitsValue(_)
DigitsValue(s) ==
    IF s = <<>> THEN 0
    ELSE 10 * DigitsValue(SubSeq(s, 1, Len(s) - 1)) + DigitValue(s[Len(s)])

\* strconv.Atoi: an optional sign, then one or more digits.
Atoi(s) ==
    LET signed == s # <<>> /\ s[1] \in {"+", "-"}
        body == IF signed THEN Tail(s) ELSE s
    IN  IF body = <<>> \/ \E i \in 1..Len(body) : ~IsDigit(body[i])
        THEN [val |-> 0, err |-> "ErrSyntax"]
        ELSE [val |-> IF signed /\ s[1] = "-" THEN -DigitsValue(body)
                      ELSE DigitsValue(body),
              err |-> "nil"]

\* Go's integer / and %: the quotient truncates toward zero.
GoDiv(a, b) == IF a >= 0 THEN a \div b ELSE -((-a) \div b)
GoMod(a, b) == a - b * GoDiv(a, b)

\* formatBalance: panics on a balance Atoi rejects.
formatBalance(balance) ==
    LET b == Atoi(balance)
    IN  IF b.err # "nil" THEN [panic |-> TRUE, s |-> <<>>]
        ELSE [panic |-> FALSE,
              s |-> FormatInt(GoDiv(b.val, 100)) \o <<".">> \o FormatInt(GoMod(b.val, 100))]

\* getUnixTimestamp: the clock reading, in decimal.
getUnixTimestamp == FormatInt(now)

(***************************************************************************)
(* Audit records and their XML                                             *)
(***************************************************************************)
server == <<"transaction">>

validCommandsWithoutSummary ==
    [c \in {"ADD", "QUOTE", "BUY", "COMMIT_BUY", "CANCEL_BUY", "SELL", "COMMIT_SELL",
            "CANCEL_SELL", "SET_BUY_AMOUNT", "CANCEL_SET_BUY", "SET_BUY_TRIGGER",
            "SET_SELL_AMOUNT", "SET_SELL_TRIGGER", "CANCEL_SET_SELL", "DUMPLOG"} |-> TRUE]

validCommands ==
    [c \in {"ADD", "QUOTE", "BUY", "COMMIT_BUY", "CANCEL_BUY", "SELL", "COMMIT_SELL",
            "CANCEL_SELL", "SET_BUY_AMOUNT", "CANCEL_SET_BUY", "SET_BUY_TRIGGER",
            "SET_SELL_AMOUNT", "SET_SELL_TRIGGER", "CANCEL_SET_SELL", "DUMPLOG",
            "DISPLAY_SUMMARY"} |-> TRUE]

\* A struct field with its xml tag.
Field(name, text, omitempty) == [name |-> name, text |-> text, omitempty |-> omitempty]

UserCommandType(timestamp, trans, command, username, symbol, filename, funds) ==
    << Field("timestamp", timestamp, FALSE),
       Field("server", server, FALSE),
       Field("transactionNum", trans, FALSE),
       Field("command", command, FALSE),
       Field("username", username, TRUE),
       Field("stockSymbol", symbol, TRUE),
       Field("filename", filename, TRUE),
       Field("funds", funds, TRUE) >>

QuoteServerType(timestamp, trans, quoteServerTime, username, symbol, price, cryptokey) ==
    << Field("timestamp", timestamp, FALSE),
       Field("server", server, FALSE),
       Field("transactionNum", trans, FALSE),
       Field("quoteServerTime", quoteServerTime, FALSE),
       Field("username", username, FALSE),
       Field("stockSymbol", symbol, FALSE),
       Field("price", price, FALSE),
       Field("cryptokey", cryptokey, FALSE) >>

\* LogType: the variants in field order, each a pointer ({} is nil).
Nil == {}
LogType(userCommand, quoteServer) ==
    << [name |-> "userCommand", ptr |-> userCommand],
       [name |-> "accountTransaction", ptr |-> Nil],
       [name |-> "systemEvent", ptr |-> Nil],
       [name |-> "quoteServer", ptr |-> quoteServer],
       [name |-> "errorEventm", ptr |-> Nil] >>

Open(name) == [kind |-> "open", name |-> name, text |-> <<>>]
Close(name) == [kind |-> "close", name |-> name, text |-> <<>>]
Elem(name, text) == [kind |-> "elem", name |-> name, text |-> text]

\* The child elements of a struct: omitempty fields that are empty are left out.
RECURSIVE MarshalFields(_)
MarshalFields(fields) ==
    IF fields = <<>> THEN <<>>
    ELSE LET f == Head(fields)
         IN  (IF f.omitempty /\ f.text = <<>> THEN <<>> ELSE <<Elem(f.name, f.text)>>)
             \o MarshalFields(Tail(fields))

RECURSIVE MarshalVariants(_)
MarshalVariants(variants) ==
    IF variants = <<>> THEN <<>>
    ELSE LET v == Head(variants)
         IN  (IF v.ptr = Nil THEN <<>>
              ELSE <<Open(v.name)>> \o MarshalFields(CHOOSE x \in v.ptr : TRUE)
                   \o <<Close(v.name)>>)
             \o MarshalVariants(Tail(variants))

\* xml.MarshalIndent of a LogType: the document, as its sequence of tags and elements.
MarshalIndent(logEntry) == <<Open("log")>> \o MarshalVariants(logEntry) \o <<Close("log")>>

(***************************************************************************)
(* Audit logger                                                            *)
(***************************************************************************)
Goroutines == {"g1", "g2"}

\* Inputs of LogCommand.
CommandInputs == {"DISPLAY_SUMMARY", "display_summary", "BOGUS"}
NoVars == [k \in {} |-> <<>>]
VarsInputs ==
    { NoVars,
      [trans |-> <<"7">>, username |-> <<"alice">>, amount |-> <<"1", "2", "3", "0", "5">>],
      [trans |-> <<"8">>, amount |-> <<"1", "x">>] }

\* Inputs of LogQuoteServ.
QuoteInputs ==
    { [username |-> <<"alice">>, price |-> <<"12.50">>, stocksymbol |-> <<"S">>,
       quoteTimestamp |-> <<"1167631203000">>, cryptokey |-> <<"k">>, trans |-> <<"9">>] }

\* What validateSchema prints; the schema is a file outside the program.
ValidationOutcomes == {"xml validation successful!", "error"}

Lookup(vars, key) == IF key \in DOMAIN vars THEN vars[key] ELSE <<>>

\* The documents in the file, counted by their closing tags.
RECURSIVE CountDocuments(_)
CountDocuments(content) ==
    IF content = <<>> THEN 0
    ELSE (IF Head(content) = Close("log") THEN 1 ELSE 0) + CountDocuments(Tail(content))

Pending == Cardinality({g \in Goroutines : gpc[g] = "opened"})

\* A write through a handle opened with O_TRUNC: the file holds the output alone.
FileWriteTruncating(content, offset, output) == output

\* A write at the handle's own offset, as without O_APPEND.
FileWriteAtOffset(content, offset, output) ==
    SubSeq(content, 1, offset) \o output
        \o SubSeq(content, offset + Len(output) + 1, Len(content))

\* file.Write on a handle opened O_APPEND|O_WRONLY: one write at the end of the file.
FileWrite(content, offset, output) == content \o output

\* LogCommand up to file.Write: the filter, OpenFile, the record and its XML.
LogCommand(g, command, vars) ==
    /\ gpc[g] = "idle"
    /\ IF command \notin DOMAIN validCommands
       THEN /\ gres' = [gres EXCEPT ![g] = "dropped"]
            /\ UNCHANGED <<gpc, goutput>>
       ELSE IF ~logExists
       THEN /\ gres' = [gres EXCEPT ![g] = "panic"]          \* OpenFile fails
            /\ UNCHANGED <<gpc, goutput>>
       ELSE IF "amount" \in DOMAIN vars /\ formatBalance(vars["amount"]).panic
       THEN /\ gres' = [gres EXCEPT ![g] = "panic"]          \* formatBalance panics
            /\ UNCHANGED <<gpc, goutput>>
       ELSE /\ CountDocuments(logFile) + Pending < MaxRecords
            /\ LET v == UserCommandType(
                            getUnixTimestamp, Lookup(vars, "trans"), <<command>>,
                            Lookup(vars, "username"), Lookup(vars, "symbol"),
                            Lookup(vars, "filename"),
                            IF "amount" \in DOMAIN vars
                            THEN formatBalance(vars["amount"]).s ELSE <<>>)
               IN  goutput' = [goutput EXCEPT ![g] = MarshalIndent(LogType({v}, Nil))]
            /\ gpc' = [gpc EXCEPT ![g] = "opened"]
            /\ gres' = [gres EXCEPT ![g] = "none"]
    /\ UNCHANGED <<logExists, logFile, now>>
    /\ UNCHANGED <<ledgerVars, formatVars>>

\* LogQuoteServ up to file.Write.
LogQuoteServ(g, q) ==
    /\ gpc[g] = "idle"
    /\ IF ~logExists
       THEN /\ gres' = [gres EXCEPT ![g] = "panic"]          \* OpenFile fails
            /\ UNCHANGED <<gpc, goutput>>
       ELSE /\ CountDocuments(logFile) + Pending < MaxRecords
            /\ LET v == QuoteServerType(getUnixTimestamp, q.trans, q.quoteTimestamp,
                                        q.username, q.stocksymbol, q.price, q.cryptokey)
               IN  goutput' = [goutput EXCEPT ![g] = MarshalIndent(LogType(Nil, {v}))]
            /\ gpc' = [gpc EXCEPT ![g] = "opened"]
            /\ gres' = [gres EXCEPT ![g] = "none"]
    /\ UNCHANGED <<logExists, logFile, now>>
    /\ UNCHANGED <<ledgerVars, formatVars>>

\* file.Write(output): the handle was just opened, its own offset is 0.
Write(g) ==
    /\ gpc[g] = "opened"
    /\ logFile' = FileWrite(logFile, 0, goutput[g])
    /\ gpc' = [gpc EXCEPT ![g] = "written"]
    /\ UNCHANGED <<logExists, goutput, gres, now>>
    /\ UNCHANGED <<ledgerVars, formatVars>>

\* validateSchema(output), then the deferred file.Close and the return.
validateSchema(g, printed) ==
    /\ gpc[g] = "written"
    /\ gpc' = [gpc EXCEPT ![g] = "idle"]
    /\ gres' = [gres EXCEPT ![g] = printed]
    /\ goutput' = [goutput EXCEPT ![g] = <<>>]
    /\ UNCHANGED <<logExists, logFile, now>>
    /\ UNCHANGED <<ledgerVars, formatVars>>

\* os.Create(logfile): the file exists and is empty.
InitLogger ==
    /\ logExists' = TRUE
    /\ logFile' = <<>>
    /\ UNCHANGED <<gpc, goutput, gres, now>>
    /\ UNCHANGED <<ledgerVars, formatVars>>

\* A document a previous run left in the file.
PriorLog ==
    MarshalIndent(LogType({UserCommandType(<<"0">>, <<"1">>, <<"QUOTE">>, <<"bob">>,
                                           <<"T">>, <<>>, <<>>)}, Nil))

InitLog ==
    /\ \/ logExists = FALSE /\ logFile = <<>>
       \/ logExists = TRUE /\ logFile = PriorLog
    /\ gpc = [g \in Goroutines |-> "idle"]
    /\ goutput = [g \in Goroutines |-> <<>>]
    /\ gres = [g \in Goroutines |-> "none"]

NoLog ==
    /\ logExists = FALSE
    /\ logFile = <<>>
    /\ gpc = [g \in Goroutines |-> "idle"]
    /\ goutput = [g \in Goroutines |-> <<>>]
    /\ gres = [g \in Goroutines |-> "none"]

InitLedger ==
    /\ money = InitMoney
    /\ stocks = InitStocks
    /\ reservations = {}
    /\ nextRid = 1
    /\ now = 0
    /\ cpc = [p \in Callers |-> "idle"]
    /\ creq = [p \in Callers |-> NoRequest]

(***************************************************************************)
(* formatBalance on its own                                                *)
(***************************************************************************)
\* The balances formatBalance is applied to.
BalanceInputs ==
    {FormatInt(n) : n \in (0..MaxAmount) \cup {12305, 12345, 12350, -5, -150}}
        \cup {<<>>, <<"1", "x">>, <<"1", ".", "5">>, <<"+", "7">>}

NotCalled == [called |-> FALSE, panic |-> FALSE, s |-> <<>>]

FormatBalanceCall ==
    /\ ~fbResult.called
    /\ fbResult' = [called |-> TRUE, panic |-> formatBalance(fbBalance).panic,
                     s |-> formatBalance(fbBalance).s]
    /\ UNCHANGED <<fbBalance, now, ledgerVars, logVars>>

InitFormat ==
    /\ fbBalance \in BalanceInputs
    /\ fbResult = NotCalled

NoFormat ==
    /\ fbBalance = <<"0">>
    /\ fbResult = NotCalled

vars == <<money, stocks, reservations, nextRid, now, cpc, creq,
          logExists, logFile, gpc, goutput, gres, fbBalance, fbResult>>

Init == InitLedger /\ NoLog /\ NoFormat

Next ==
    \/ \E p \in Callers, r \in Requests : CreateCheck(p, r)
    \/ \E p \in Callers : CreateInsert(p)
    \/ \E rid \in 1..MaxRid : Cancel(rid)
    \/ \E rid \in 1..MaxRid : Commit(rid)
    \/ Tick

Spec == Init /\ [][Next]_vars

InitLogSpec == InitLedger /\ InitLog /\ NoFormat

NextLog ==
    \/ \E g \in Goroutines, c \in CommandInputs, v \in VarsInputs : LogCommand(g, c, v)
    \/ \E g \in Goroutines, q \in QuoteInputs : LogQuoteServ(g, q)
    \/ \E g \in Goroutines : Write(g)
    \/ \E g \in Goroutines, printed \in ValidationOutcomes : validateSchema(g, printed)
    \/ InitLogger
    \/ Tick

SpecLog == InitLogSpec /\ [][NextLog]_vars

InitFormatSpec == InitLedger /\ NoLog /\ InitFormat

NextFormat == FormatBalanceCall

SpecFormat == InitFormatSpec /\ [][NextFormat]_vars

(***************************************************************************)
(* Claims about the ledger queries (checked under Spec)                    *)
(***************************************************************************)
\* The sum of field f over the reservations with rid <= n of user u, type t, that
\* satisfy the symbol test (any symbol when syms = Symbols).
RECURSIVE ReservedUpTo(_, _, _, _, _)
ReservedUpTo(n, u, t, syms, f) ==
    IF n = 0 THEN 0
    ELSE ReservedUpTo(n - 1, u, t, syms, f)
         + (IF \E r \in reservations :
                  r.rid = n /\ r.username = u /\ r.type = t /\ r.symbol \in syms
            THEN (CHOOSE r \in reservations : r.rid = n)[f]
            ELSE 0)

ReservedBuy(u) == ReservedUpTo(nextRid - 1, u, BUY, Symbols, "amount")
ReservedSell(u, s) == ReservedUpTo(nextRid - 1, u, SELL, {s}, "shares")

\* C1: for every existing user, QueryUserAvailableBalance returns, without error,
\* the user's money minus the amounts of the user's outstanding BUY reservations;
\* SELL reservations and other users' reservations do not count.
C1_AvailableBalance ==
    \A u \in UsersTable :
        QueryUserAvailableBalance(u) = [val |-> money[u] - ReservedBuy(u), err |-> "nil"]

\* C1 witness: alice holds 10000 with one BUY reservation of 4000, a SELL reservation
\* of her own and a BUY reservation of bob outstanding, and the query returns 6000.
C1_Witness ==
    /\ money["alice"] = 10000
    /\ {r.amount : r \in {x \in reservations : x.username = "alice" /\ x.type = BUY}}
           = {4000}
    /\ ReservedBuy("alice") = 4000
    /\ \E r \in reservations : r.username = "alice" /\ r.type = SELL
    /\ \E r \in reservations : r.username = "bob" /\ r.type = BUY
    /\ QueryUserAvailableBalance("alice").val = 6000

\* C2: for every user and symbol, QueryUserAvailableShares returns the shares held
\* for (user, symbol) minus the shares of the outstanding SELL reservations of that
\* same (user, symbol); a SELL reservation on another symbol does not count.
C2_AvailableSharesPerSymbol ==
    \A u \in UsersTable, s \in Symbols :
        QueryUserAvailableShares(u, s)
            = [val |-> SharesHeld(u, s) - ReservedSell(u, s), err |-> "nil"]

C4_UnknownUserNotFound ==
    \A u \in Usernames \ DOMAIN money :
        /\ QueryUserAvailableBalance(u).err = "ErrNoRows"
        /\ \A s \in Symbols : QueryUserAvailableShares(u, s).err = "ErrNoRows"

\* C5: when a user's outstanding reservations exceed the confirmed money or shares,
\* the availability reads return an error, never a negative number with a nil error.
C5_CorruptionSurfaced ==
    \A u \in UsersTable :
        /\ ReservedBuy(u) > money[u] => QueryUserAvailableBalance(u).err # "nil"
        /\ \A s \in Symbols :
               ReservedSell(u, s) > SharesHeld(u, s)
                   => QueryUserAvailableShares(u, s).err # "nil"

\* C6: QueryLastReservation(u, t) returns the reservation of u with type t of the
\* greatest time and, among those, of the greatest rid; it returns ErrNoRows exactly
\* when u has no reservation of type t, and never a row of another user or type.
C6_LastReservation ==
    \A u \in Usernames, t \in OrderTypes :
        LET q == QueryLastReservation(u, t)
            mine == {r \in reservations : r.username = u /\ r.type = t}
        IN  /\ (q.err = "ErrNoRows") <=> (mine = {})
            /\ mine # {} =>
                 /\ q.err = "nil"
                 /\ q.res \in mine
                 /\ \A r \in mine :
                        \/ r.time < q.res.time
                        \/ (r.time = q.res.time /\ r.rid <= q.res.rid)

\* C6 witness: a user has two reservations of one type with the same time, an older
\* one of that type, or a newer reservation of the other type, is outstanding too.
C6_Witness ==
    \E a \in reservations, b \in reservations, c \in reservations :
        /\ a.username = b.username /\ a.type = b.type
        /\ a.time = b.time /\ a.rid < b.rid
        /\ c.username = a.username /\ c.type # a.type /\ c.rid > b.rid
        /\ QueryLastReservation(a.username, a.type).res = b

(***************************************************************************)
(* Claims about the audit logger (checked under SpecLog)                   *)
(***************************************************************************)
\* The sixteen recognized commands, as the specification lists them.
RecognizedCommands ==
    {"ADD", "QUOTE", "BUY", "COMMIT_BUY", "CANCEL_BUY", "SELL", "COMMIT_SELL",
     "CANCEL_SELL", "SET_BUY_AMOUNT", "CANCEL_SET_BUY", "SET_BUY_TRIGGER",
     "SET_SELL_AMOUNT", "SET_SELL_TRIGGER", "CANCEL_SET_SELL", "DUMPLOG",
     "DISPLAY_SUMMARY"}

IsPrefix(a, b) == Len(a) <= Len(b) /\ SubSeq(b, 1, Len(a)) = a

ElementNames(d) == [i \in 1..(Len(d) - 4) |-> d[i + 2].name]

\* d is one complete document: <log>, one variant with its elements, </log>.
IsDocument(d) ==
    /\ Len(d) >= 4
    /\ d[1] = Open("log") /\ d[Len(d)] = Close("log")
    /\ d[2].kind = "open" /\ d[2].name \in {"userCommand", "quoteServer"}
    /\ d[Len(d) - 1] = Close(d[2].name)
    /\ \A i \in 3..(Len(d) - 2) : d[i].kind = "elem"
    /\ IF d[2].name = "userCommand"
       THEN IsPrefix(<<"timestamp", "server", "transactionNum", "command">>,
                     ElementNames(d))
       ELSE ElementNames(d) = <<"timestamp", "server", "transactionNum",
                                "quoteServerTime", "username", "stockSymbol",
                                "price", "cryptokey">>

\* content is a concatenation of complete documents.
RECURSIVE IsDocumentSequence(_)
IsDocumentSequence(content) ==
    \/ content = <<>>
    \/ /\ \E k \in 1..Len(content) : content[k] = Close("log")
       /\ LET k == CHOOSE i \in 1..Len(content) :
                       /\ content[i] = Close("log")
                       /\ \A j \in 1..(i - 1) : content[j] # Close("log")
          IN  /\ IsDocument(SubSeq(content, 1, k))
              /\ IsDocumentSequence(SubSeq(content, k + 1, Len(content)))

IsUserCommandDocument(d, command) ==
    /\ IsDocument(d)
    /\ d[2] = Open("userCommand")
    /\ d[6] = Elem("command", <<command>>)

WellFormedVars(v) ==
    "amount" \in DOMAIN v =>
        /\ v["amount"] # <<>>
        /\ \A i \in 1..Len(v["amount"]) : IsDigit(v["amount"][i])

\* C7: a LogCommand call with a command outside the sixteen recognized ones leaves
\* the log unchanged and ends without panic, whatever the vars and whether or not
\* the log exists; a call with a recognized command and well-formed vars on an
\* existing log marshals one UserCommand document, and its write appends exactly
\* that document, the rest of the call leaving the log alone.
C7_CommandFilter ==
    [][\A g \in Goroutines :
         /\ \A c \in CommandInputs, v \in VarsInputs :
              \* (a LogCommand step that leaves g as it was is a stuttering step)
              (<<gpc[g], gres[g], goutput[g]>> # <<gpc'[g], gres'[g], goutput'[g]>>
                  /\ LogCommand(g, c, v)) =>
                  IF c \notin RecognizedCommands
                  THEN logFile' = logFile /\ gres'[g] = "dropped" /\ gpc'[g] = "idle"
                  ELSE (logExists /\ WellFormedVars(v)) =>
                          /\ gpc'[g] = "opened"
                          /\ IsUserCommandDocument(goutput'[g], c)
                          /\ logFile' = logFile
         /\ (gpc[g] = "opened" /\ gpc'[g] = "written") =>
                /\ logFile' = logFile \o goutput[g]
                /\ CountDocuments(logFile') = CountDocuments(logFile) + 1
         /\ (gpc[g] = "written" /\ gpc'[g] = "idle") => logFile' = logFile
      ]_vars

\* C7 witness: one goroutine's call was dropped while the other has appended a
\* UserCommand document, which ends the log.
C7_Witness ==
    \E g \in Goroutines, h \in Goroutines :
        /\ gres[g] = "dropped"
        /\ gpc[h] = "written"
        /\ \E c \in RecognizedCommands : IsUserCommandDocument(goutput[h], c)
        /\ Len(logFile) >= Len(goutput[h])
        /\ SubSeq(logFile, Len(logFile) - Len(goutput[h]) + 1, Len(logFile)) = goutput[h]

\* C8: InitLogger leaves an existing, empty log; every other step leaves the log's
\* content a prefix of its new content, whatever validateSchema reports.
C8_AppendOnly ==
    [][IF InitLogger THEN logExists' /\ logFile' = <<>>
       ELSE IsPrefix(logFile, logFile')]_vars

\* C8 witness: after InitLogger truncated the log, two documents were appended and
\* the validation of one of them reported an error.
C8_Witness ==
    /\ logExists
    /\ CountDocuments(logFile) = 2
    /\ ~IsPrefix(PriorLog, logFile)
    /\ \E g \in Goroutines : gres[g] = "error"

\* C9: whatever the interleaving of the goroutines' log calls, the log is a
\* concatenation of complete documents: no two documents are intermixed and none
\* is partial.
C9_ContiguousDocuments == IsDocumentSequence(logFile)

\* C9 witness: both goroutines were inside a log call at once and both have written,
\* documents of different lengths.
C9_Witness ==
    /\ \A g \in Goroutines : gpc[g] = "written"
    /\ Len(goutput["g1"]) # Len(goutput["g2"])
    /\ CountDocuments(logFile) = 2

(***************************************************************************)
(* Claim about formatBalance (checked under SpecFormat)                    *)
(***************************************************************************)
\* The amount, in hundredths, that a string "major.minor" denotes as a decimal
\* number: {} when it is not one.
DecimalHundredths(s) ==
    IF ~\E k \in 1..Len(s) : s[k] = "." THEN {}
    ELSE LET k == CHOOSE i \in 1..Len(s) : s[i] = "."
             major == SubSeq(s, 1, k - 1)
             minor == SubSeq(s, k + 1, Len(s))
         IN  IF \/ Atoi(major).err # "nil"
                \/ Len(minor) \notin {1, 2}
                \/ \E i \in 1..Len(minor) : ~IsDigit(minor[i])
             THEN {}
             ELSE LET frac == IF Len(minor) = 1 THEN 10 * DigitsValue(minor)
                              ELSE DigitsValue(minor)
                  IN  {IF Atoi(major).val < 0 \/ major[1] = "-"
                       THEN 100 * Atoi(major).val - frac
                       ELSE 100 * Atoi(major).val + frac}

\* C10: formatBalance of n minor units returns a string that denotes exactly n/100,
\* the minor part zero-padded to two digits, and no other amount yields a string
\* denoting the same decimal value.
C10_FixedPoint ==
    (fbResult.called /\ ~fbResult.panic) =>
        /\ DecimalHundredths(fbResult.s) = {Atoi(fbBalance).val}
        /\ Len(fbResult.s) >= 3 /\ fbResult.s[Len(fbResult.s) - 2] = "."
        /\ \A other \in BalanceInputs :
               (Atoi(other).err = "nil" /\ Atoi(other).val # Atoi(fbBalance).val)
                   => DecimalHundredths(formatBalance(other).s)
                          # DecimalHundredths(fbResult.s)

====
